---- MODULE Spec2Model ----
(***************************************************************************)
(* rustow: the plan-then-execute pipeline of stow.rs over a model of the   *)
(* filesystem.  A path is a sequence of component names from the root; a   *)
(* filesystem maps every existing canonical path to its entry.  One action *)
(* of the model is one whole invocation (stow, delete or restow), or one   *)
(* edit of a package by the user between invocations.                      *)
(***************************************************************************)
EXTENDS Integers, Sequences, FiniteSets, TLC

VARIABLES fs, run

vars == <<fs, run>>

\* ------------------------------------------------------------------ bounds
\* symlinks followed while resolving one path before the lookup gives up
Fuel == 4

\* ------------------------------------------------------- lexical path ops
NoPath == <<"?ENOENT">>
ErrPath == <<"?EOTHER">>
NoLink == <<"?none">>

IsFailure(p) == p = NoPath \/ p = ErrPath

Last(s) == s[Len(s)]

\* Path::parent
Parent(p) == IF p = <<>> THEN <<>> ELSE SubSeq(p, 1, Len(p) - 1)

\* Path::starts_with (whole components)
StartsWith(p, base) == Len(base) <= Len(p) /\ SubSeq(p, 1, Len(base)) = base

\* Path::strip_prefix, for a path that starts with base
StripPrefix(p, base) == SubSeq(p, Len(base) + 1, Len(p))

\* a link body is absolute when it starts at the root
IsAbsolute(b) == b # <<>> /\ Head(b) = "/"

\* Path::join of an absolute path and a body; components() drops "." inside
RECURSIVE DropCurDir(_)
DropCurDir(s) ==
    IF s = <<>> THEN <<>>
    ELSE IF Head(s) = "." THEN DropCurDir(Tail(s))
    ELSE <<Head(s)>> \o DropCurDir(Tail(s))

Join(base, b) == IF IsAbsolute(b) THEN DropCurDir(Tail(b)) ELSE base \o DropCurDir(b)

RECURSIVE CommonLen(_, _)
CommonLen(a, b) ==
    IF a = <<>> \/ b = <<>> \/ Head(a) # Head(b) THEN 0
    ELSE 1 + CommonLen(Tail(a), Tail(b))

\* pathdiff::diff_paths(path, base) for two absolute paths without ".."
diff_paths(path, base) ==
    LET n == CommonLen(path, base) IN
    [i \in 1..(Len(base) - n) |-> ".."] \o SubSeq(path, n + 1, Len(path))

RECURSIVE NormalizeFrom(_, _)
NormalizeFrom(acc, rest) ==
    IF rest = <<>> THEN acc
    ELSE IF Head(rest) = ".." THEN NormalizeFrom(Parent(acc), Tail(rest))
    ELSE IF Head(rest) = "." THEN NormalizeFrom(acc, Tail(rest))
    ELSE NormalizeFrom(Append(acc, Head(rest)), Tail(rest))

normalize_path_components(p) == NormalizeFrom(<<>>, p)

\* ------------------------------------------------------ filesystem lookups
File(c) == [k |-> "file", v |-> <<c>>]
Dir == [k |-> "dir", v |-> <<>>]
\* a directory that may be searched and written but not listed
DirNoRead == [k |-> "dir", v |-> <<"unreadable">>]
Link(b) == [k |-> "link", v |-> b]

\* path resolution of the kernel: cur is a resolved directory, rest the
\* components still to walk; the last component is followed when follow
RECURSIVE Walk(_, _, _, _, _)
Walk(f, cur, rest, follow, fuel) ==
    IF rest = <<>> THEN cur
    ELSE LET c == Head(rest)
             t == Tail(rest)
             nxt == Append(cur, c)
         IN  IF c = "." THEN Walk(f, cur, t, follow, fuel)
             ELSE IF c = ".." THEN Walk(f, Parent(cur), t, follow, fuel)
             ELSE IF nxt \notin DOMAIN f THEN NoPath
             ELSE IF f[nxt].k = "link" /\ (t # <<>> \/ follow)
                  THEN IF fuel = 0 THEN ErrPath
                       ELSE IF IsAbsolute(f[nxt].v)
                            THEN Walk(f, <<>>, Tail(f[nxt].v) \o t, follow, fuel - 1)
                            ELSE Walk(f, cur, f[nxt].v \o t, follow, fuel - 1)
             ELSE IF f[nxt].k = "link" THEN nxt
             ELSE IF f[nxt].k = "file" /\ t # <<>> THEN ErrPath
             ELSE Walk(f, nxt, t, follow, fuel)

\* std::fs::canonicalize
canonicalize_path(f, p) == Walk(f, <<>>, p, TRUE, Fuel)

\* the entry itself, a final symlink not followed (symlink_metadata)
LResolve(f, p) == Walk(f, <<>>, p, FALSE, Fuel)

path_exists(f, p) == ~IsFailure(canonicalize_path(f, p))

is_directory(f, p) ==
    LET IsDir(r) == ~IsFailure(r) /\ f[r].k = "dir" IN IsDir(canonicalize_path(f, p))

is_file(f, p) ==
    LET IsFile(r) == ~IsFailure(r) /\ f[r].k = "file" IN IsFile(canonicalize_path(f, p))

is_symlink(f, p) ==
    LET IsLink(r) == ~IsFailure(r) /\ f[r].k = "link" IN IsLink(LResolve(f, p))

\* the literal body of the link at p
read_link(f, p) == f[LResolve(f, p)].v

\* names in listing order (the order read_dir and WalkDir yield siblings)
NameOrder == <<".stow-global-ignore", ".stow-local-ignore", "H", "S", "T", "X", "README", "d", "dot-", "dot-.", "dot-c", ".c", "e", "f", "g", "h", "l", "n", "p1", "p2", "x">>

Children(f, d) == {q \in DOMAIN f : Len(q) = Len(d) + 1 /\ SubSeq(q, 1, Len(d)) = d}

\* std::fs::read_dir of a resolved directory: the entry names, in order
ReadDirNames(f, d) ==
    LET present == {Last(q) : q \in Children(f, d)} IN
    SelectSeq(NameOrder, LAMBDA n : n \in present)

\* std::fs::read_dir returns an error: nothing is at p, or no directory, or a
\* directory that may not be listed
ReadDirFails(f, p) ==
    LET Fails(d) == IsFailure(d) \/ f[d].k # "dir" \/ f[d] = DirNoRead
    IN  Fails(canonicalize_path(f, p))

\* ---------------------------------------------------- filesystem mutations
Remove(f, r) == [q \in DOMAIN f \ {r} |-> f[q]]

Ok(f) == [ok |-> TRUE, fs |-> f]
Fail(f) == [ok |-> FALSE, fs |-> f]

\* mkdir(2): "ok", "NotFound" (a parent is missing) or "other"
Mkdir(f, p) ==
    LET In(cp) ==
            IF cp = NoPath THEN [r |-> "NotFound", fs |-> f]
            ELSE IF cp = ErrPath \/ f[cp].k # "dir" \/ Append(cp, Last(p)) \in DOMAIN f
                 THEN [r |-> "other", fs |-> f]
            ELSE [r |-> "ok", fs |-> (Append(cp, Last(p)) :> Dir) @@ f]
    IN  In(canonicalize_path(f, Parent(p)))

\* std::fs::create_dir_all: directories made before a failure stay
RECURSIVE create_dir_all(_, _)
create_dir_all(f, p) ==
    IF p = <<>> THEN Ok(f)
    ELSE LET Again(g, m2) ==
                 IF m2.r = "ok" THEN Ok(m2.fs)
                 ELSE IF is_directory(g, p) THEN Ok(g) ELSE Fail(g)
             AfterParent(pr) == IF ~pr.ok THEN pr ELSE Again(pr.fs, Mkdir(pr.fs, p))
             First(m) ==
                 IF m.r = "ok" THEN Ok(m.fs)
                 ELSE IF m.r # "NotFound"
                      THEN IF is_directory(f, p) THEN Ok(f) ELSE Fail(f)
                 ELSE AfterParent(create_dir_all(f, Parent(p)))
         IN  First(Mkdir(f, p))

\* symlink(2): writes the literal body; fails when the link path is taken
\* (by anything, a dangling symlink included) or its parent is missing
create_symlink(f, link_path, body) ==
    LET In(cp) ==
            IF IsFailure(cp) \/ f[cp].k # "dir" \/ Append(cp, Last(link_path)) \in DOMAIN f
            THEN Fail(f)
            ELSE Ok((Append(cp, Last(link_path)) :> Link(body)) @@ f)
    IN  In(canonicalize_path(f, Parent(link_path)))

delete_symlink(f, p) ==
    IF ~is_symlink(f, p) THEN Fail(f) ELSE Ok(Remove(f, LResolve(f, p)))

\* the error kind of a failed delete_symlink
delete_symlink_error(f, p) ==
    IF ~path_exists(f, p) THEN "NotFound" ELSE "NotASymlink"

delete_empty_dir(f, p) ==
    IF is_symlink(f, p) \/ ~path_exists(f, p) \/ ~is_directory(f, p) THEN Fail(f)
    ELSE LET RemoveDir(r) ==
                 IF ReadDirFails(f, p) \/ Children(f, r) # {} THEN Fail(f) ELSE Ok(Remove(f, r))
         IN  RemoveDir(canonicalize_path(f, p))

\* ------------------------------------------------------------ package walk
NoItem == [package_relative_path |-> <<>>, source_path |-> <<>>,
           item_type |-> "None", target_name_after_dotfiles_processing |-> <<>>]

ItemTypeOf(e) == IF e.k = "link" THEN "Symlink" ELSE IF e.k = "dir" THEN "Directory" ELSE "File"

\* WalkDir below a resolved directory d, whose path from the package root is
\* rel: every entry before its own children, symlinks not followed
RECURSIVE WalkNames(_, _, _, _, _)
WalkNames(f, root, d, rel, names) ==
    IF names = <<>> THEN <<>>
    ELSE LET n == Head(names)
             q == Append(d, n)
             item == [absolute_path |-> root \o Append(rel, n),
                      package_relative_path |-> Append(rel, n),
                      item_type |-> ItemTypeOf(f[q])]
             below == IF f[q].k = "dir"
                      THEN WalkNames(f, root, q, Append(rel, n), ReadDirNames(f, q))
                      ELSE <<>>
         IN  <<item>> \o below \o WalkNames(f, root, d, rel, Tail(names))

walk_package_dir(f, package_path) ==
    LET From(d) == WalkNames(f, package_path, d, <<>>, ReadDirNames(f, d))
    IN  From(canonicalize_path(f, package_path))

\* ---------------------------------------------------------------- dotfiles
\* the names of the model that start with the four characters "dot-"
DotPrefixed == {"dot-c", "dot-", "dot-."}

\* the name with "dot-" replaced by "."
StripDot(n) ==
    IF n = "dot-c" THEN ".c"
    ELSE IF n = "dot-" THEN "."
    ELSE IF n = "dot-." THEN ".."
    ELSE n

\* process_item_name takes the whole package-relative path as one string: the
\* string starts with "dot-" exactly when its first component does
process_item_name(rel, is_dotfiles_enabled) ==
    IF is_dotfiles_enabled /\ rel # <<>> /\ Head(rel) \in DotPrefixed
    THEN <<StripDot(Head(rel))>> \o Tail(rel)
    ELSE rel

\* ------------------------------------------------------------------ ignore
\* a pattern is a regex source text; PatternHasSlash and RegexMatches give, for
\* the patterns and names of the model, what contains('/') and is_match give
DefaultPatterns == <<"\\.git", "^/README.*">>

PatternHasSlash(pat) == pat \in {"^/README.*"}

\* is_match of a basename pattern on one name
RegexMatchesName(pat, name) ==
    \/ pat = "^g$" /\ name = "g"
    \/ pat = "^d$" /\ name = "d"
    \/ pat = "\\.git" /\ FALSE

\* is_match of a path pattern on "/" followed by the joined path
RegexMatchesPath(pat, rel) ==
    pat = "^/README.*" /\ rel # <<>> /\ Head(rel) = "README"

\* a variant without the pass over the parent components
is_ignored_basename_only(rel, item_basename, patterns) ==
    \E i \in 1..Len(patterns) :
        LET pat == patterns[i] IN
        IF PatternHasSlash(pat) THEN RegexMatchesPath(pat, rel)
        ELSE RegexMatchesName(pat, item_basename)

is_ignored(rel, item_basename, patterns) ==
    \E i \in 1..Len(patterns) :
        LET pat == patterns[i] IN
        IF PatternHasSlash(pat) THEN RegexMatchesPath(pat, rel)
        ELSE \/ RegexMatchesName(pat, item_basename)
             \/ \E j \in 1..Len(rel) :
                    /\ RegexMatchesName(pat, rel[j])
                    /\ ~(rel[j] = item_basename /\ rel = <<rel[j]>>)

\* a variant that asks for the global file before the local one
IgnoreLoad_global_first(f, stow_dir, package_name, home_dir) ==
    LET local == stow_dir \o <<package_name, ".stow-local-ignore">>
        global == Append(home_dir, ".stow-global-ignore")
    IN  IF is_file(f, global) THEN f[canonicalize_path(f, global)].v
        ELSE IF is_file(f, local) THEN f[canonicalize_path(f, local)].v
        ELSE DefaultPatterns

\* IgnorePatterns::load: the first source that is a regular file, else the
\* built-in list; the lines of a pattern file are its content
IgnoreLoad(f, stow_dir, package_name, home_dir) ==
    LET local == stow_dir \o <<package_name, ".stow-local-ignore">>
        global == Append(home_dir, ".stow-global-ignore")
    IN  IF is_file(f, local) THEN f[canonicalize_path(f, local)].v
        ELSE IF is_file(f, global) THEN f[canonicalize_path(f, global)].v
        ELSE DefaultPatterns

should_ignore_item(processed_target_relative_path, patterns) ==
    is_ignored(processed_target_relative_path,
               IF processed_target_relative_path = <<>> THEN ""
               ELSE Last(processed_target_relative_path),
               patterns)

\* ------------------------------------------------- stow-symlink recognition
NotStow == [r |-> "None", package_name |-> "", item_path |-> <<>>]
StowErr == [r |-> "Err", package_name |-> "", item_path |-> <<>>]

\* fs_utils::is_stow_symlink: Some(package, item path), None or Err
is_stow_symlink(f, link_path, stow_dir) ==
    LET Split(rel) ==
            IF rel = <<>> THEN NotStow
            ELSE [r |-> "Some", package_name |-> Head(rel), item_path |-> Tail(rel)]
        Classify(canonical_stow_dir, canonical_target_path) ==
            IF canonical_target_path = NoPath THEN NotStow
            ELSE IF canonical_target_path = ErrPath THEN StowErr
            ELSE IF ~StartsWith(canonical_target_path, canonical_stow_dir) THEN NotStow
            ELSE Split(StripPrefix(canonical_target_path, canonical_stow_dir))
        Resolve(canonical_stow_dir, body) ==
            Classify(canonical_stow_dir,
                     canonicalize_path(f, IF IsAbsolute(body) THEN Tail(body)
                                          ELSE Parent(link_path) \o body))
        WithStowDir(canonical_stow_dir) ==
            IF IsFailure(canonical_stow_dir) THEN StowErr
            ELSE Resolve(canonical_stow_dir, read_link(f, link_path))
    IN  IF ~is_symlink(f, link_path) THEN NotStow
        ELSE WithStowDir(canonicalize_path(f, stow_dir))

\* ----------------------------------------------------------------- planner
Action(item, target, link, type, details) ==
    [source_item |-> item, target_path |-> target, link_target_path |-> link,
     action_type |-> type, conflict_details |-> details]

\* the outcome (action_type, conflict_details, link_target_path) of a decision
Decision(type, details, link) == [action_type |-> type, conflict_details |-> details, link |-> link]

\* the planner met an error it propagates with `?`: the invocation aborts
PlanError == Decision("Error", "error", NoLink)

\* is_match of an override or defer regex on the target-relative path
PathRegexMatches(pat, rel) == pat = "f$" /\ rel # <<>> /\ Last(rel) = "f"

\* PatternMatcher::check_patterns: a decision, or NoDecision
NoDecision == Decision("None", "None", NoLink)

check_patterns(cfg, target_path_abs, link_target) ==
    IF ~StartsWith(target_path_abs, cfg.target_dir) THEN NoDecision
    ELSE LET rel == StripPrefix(target_path_abs, cfg.target_dir) IN
         IF \E pat \in cfg.defers : PathRegexMatches(pat, rel)
         THEN Decision("Skip", "Deferred due to pattern match", NoLink)
         ELSE IF \E pat \in cfg.overrides : PathRegexMatches(pat, rel)
         THEN Decision("CreateSymlink", "Overriding existing file due to pattern match", link_target)
         ELSE NoDecision

is_non_stow_entry(f, entry_path, stow_dir) ==
    IF ~is_symlink(f, entry_path) THEN TRUE
    ELSE is_stow_symlink(f, entry_path, stow_dir).r # "Some"

check_directory_for_non_stow_files(f, target_path_abs, cfg) ==
    LET AnyNonStow(d) ==
            /\ ~IsFailure(d)
            /\ ~ReadDirFails(f, target_path_abs)
            /\ \E q \in Children(f, d) :
                   is_non_stow_entry(f, Append(target_path_abs, Last(q)), cfg.stow_dir)
    IN  AnyNonStow(canonicalize_path(f, target_path_abs))

handle_directory_conflict(f, target_path_abs, cfg) ==
    IF check_directory_for_non_stow_files(f, target_path_abs, cfg)
    THEN Decision("Conflict", "contains non-stow managed files", NoLink)
    ELSE Decision("CreateDirectory", "None", NoLink)

\* the package compared is config.packages.get(0), whichever package the
\* item being planned belongs to
is_same_package_and_item(existing_package_name, existing_item_path, stow_item, cfg) ==
    /\ existing_item_path = stow_item.package_relative_path
    /\ cfg.packages # <<>>
    /\ existing_package_name = cfg.packages[1]

handle_stow_package_conflict(cfg, target_path_abs, link_target) ==
    LET OrConflict(d) ==
            IF d # NoDecision THEN d
            ELSE Decision("Conflict", "managed by another stow package", NoLink)
    IN  OrConflict(check_patterns(cfg, target_path_abs, link_target))

check_file_directory_type_conflicts(f, stow_item, target_path_abs) ==
    IF is_directory(f, target_path_abs) /\ stow_item.item_type # "Directory"
    THEN Decision("Conflict", "target is a directory", NoLink)
    ELSE IF ~is_directory(f, target_path_abs) /\ stow_item.item_type = "Directory"
    THEN Decision("Conflict", "target is a file", NoLink)
    ELSE NoDecision

\* a variant that asks the override and defer patterns before the kinds
handle_file_type_conflicts_patterns_first(f, stow_item, target_path_abs, link_target, cfg) ==
    LET OrConflict(d) ==
            IF d # NoDecision THEN d
            ELSE Decision("Conflict", "already exists and is not stow-managed", NoLink)
        OrKinds(t) ==
            IF t # NoDecision THEN t
            ELSE OrConflict(check_file_directory_type_conflicts(f, stow_item, target_path_abs))
    IN  OrKinds(check_patterns(cfg, target_path_abs, link_target))

handle_file_type_conflicts(f, stow_item, target_path_abs, link_target, cfg) ==
    LET OrConflict(d) ==
            IF d # NoDecision THEN d
            ELSE Decision("Conflict", "already exists and is not stow-managed", NoLink)
        OrPatterns(t) ==
            IF t # NoDecision THEN t
            ELSE OrConflict(check_patterns(cfg, target_path_abs, link_target))
    IN  OrPatterns(check_file_directory_type_conflicts(f, stow_item, target_path_abs))

handle_existing_symlink_conflict(f, stow_item, target_path_abs, link_target, cfg) ==
    LET Decide(s) ==
            IF s.r = "Err" THEN PlanError
            ELSE IF s.r = "Some"
            THEN IF is_same_package_and_item(s.package_name, s.item_path, stow_item, cfg)
                 THEN Decision("Skip", "Target already points to the same source", NoLink)
                 ELSE handle_stow_package_conflict(cfg, target_path_abs, link_target)
            ELSE handle_file_type_conflicts(f, stow_item, target_path_abs, link_target, cfg)
    IN  Decide(is_stow_symlink(f, target_path_abs, cfg.stow_dir))

handle_existing_target_conflict(f, stow_item, target_path_abs, link_target, cfg) ==
    IF is_directory(f, target_path_abs) /\ stow_item.item_type = "Directory"
    THEN handle_directory_conflict(f, target_path_abs, cfg)
    ELSE IF is_symlink(f, target_path_abs)
    THEN handle_existing_symlink_conflict(f, stow_item, target_path_abs, link_target, cfg)
    ELSE handle_file_type_conflicts(f, stow_item, target_path_abs, link_target, cfg)

plan_stow_action_for_item(f, stow_item, target_path_abs, link_target, cfg) ==
    LET Planned(d) ==
            Action(stow_item, target_path_abs, d.link, d.action_type, d.conflict_details)
    IN  Planned(IF path_exists(f, target_path_abs)
                THEN handle_existing_target_conflict(f, stow_item, target_path_abs, link_target, cfg)
                ELSE IF stow_item.item_type = "Directory"
                     THEN Decision("CreateDirectory", "None", NoLink)
                     ELSE Decision("CreateSymlink", "None", link_target))

create_stow_item_from_raw(raw_item, processed_target_relative_path) ==
    [package_relative_path |-> raw_item.package_relative_path,
     source_path |-> raw_item.absolute_path,
     item_type |-> raw_item.item_type,
     target_name_after_dotfiles_processing |-> processed_target_relative_path]

\* a variant that takes the link itself, not its directory, as the base
calculate_link_target_from_link(stow_item, target_path_abs) ==
    diff_paths(stow_item.source_path, target_path_abs)

calculate_link_target(stow_item, target_path_abs) ==
    diff_paths(stow_item.source_path, Parent(target_path_abs))

\* the action of one package item, or no action when the item is ignored
process_item_for_stow(f, raw_item, cfg, patterns) ==
    LET rel == process_item_name(raw_item.package_relative_path, cfg.dotfiles) IN
    IF should_ignore_item(rel, patterns) THEN <<>>
    ELSE LET target_path_abs == Join(cfg.target_dir, rel)
             stow_item == create_stow_item_from_raw(raw_item, rel)
         IN  <<plan_stow_action_for_item(f, stow_item, target_path_abs,
                    calculate_link_target(stow_item, target_path_abs), cfg)>>

is_parent_target_of_conflict(parent_path, all_actions) ==
    \E i \in 1..Len(all_actions) :
        all_actions[i].target_path = parent_path /\ all_actions[i].action_type = "Conflict"

check_parent_path_conflicts(f, parent_path, all_actions) ==
    IF path_exists(f, parent_path) /\ ~is_directory(f, parent_path) THEN "ParentIsFile"
    ELSE IF is_parent_target_of_conflict(parent_path, all_actions) THEN "ParentIsConflictTarget"
    ELSE "None"

\* find_parent_conflict: the ancestors of the target inside the target root,
\* nearest first, up to the first one in conflict
RECURSIVE ParentConflictFrom(_, _, _, _)
ParentConflictFrom(f, parent_path, all_actions, cfg) ==
    IF ~StartsWith(parent_path, cfg.target_dir) \/ parent_path = cfg.target_dir THEN "None"
    ELSE LET OrNext(c) ==
                 IF c # "None" THEN c
                 ELSE ParentConflictFrom(f, Parent(parent_path), all_actions, cfg)
         IN  OrNext(check_parent_path_conflicts(f, parent_path, all_actions))

find_parent_conflict(f, action, all_actions, cfg) ==
    IF action.target_path = <<>> THEN "None"
    ELSE ParentConflictFrom(f, Parent(action.target_path), all_actions, cfg)

refine_actions_for_parent_conflicts(f, actions, cfg) ==
    LET Refined(action, c) ==
            IF c = "None" THEN action
            ELSE [action EXCEPT !.action_type = "Conflict",
                                !.link_target_path = NoLink,
                                !.conflict_details = c]
    IN  [i \in 1..Len(actions) |->
            IF actions[i].action_type \in {"Conflict", "Error"} THEN actions[i]
            ELSE Refined(actions[i], find_parent_conflict(f, actions[i], actions, cfg))]

RECURSIVE FlatMapItems(_, _, _, _)
FlatMapItems(f, items, cfg, patterns) ==
    IF items = <<>> THEN <<>>
    ELSE process_item_for_stow(f, Head(items), cfg, patterns)
         \o FlatMapItems(f, Tail(items), cfg, patterns)

\* validate_package_path and load_package_items: "Ok" or the error
validate_package_path(f, package_path) ==
    IF ~path_exists(f, package_path) THEN "PackageNotFound"
    ELSE IF ~is_directory(f, package_path) THEN "InvalidPackageStructure"
    ELSE "Ok"

ErrorPlan == <<Action(NoItem, <<>>, NoLink, "Error", "error")>>

HasError(actions) == \E i \in 1..Len(actions) : actions[i].action_type = "Error"

\* plan_actions: the actions of one package; a plan holding an Error action
\* stands for Err(..), which aborts the invocation
plan_actions(f, package_name, cfg, patterns) ==
    LET package_path == Append(cfg.stow_dir, package_name)
        Refine(actions) ==
            IF HasError(actions) THEN ErrorPlan
            ELSE refine_actions_for_parent_conflicts(f, actions, cfg)
    IN  IF validate_package_path(f, package_path) # "Ok" THEN ErrorPlan
        ELSE Refine(FlatMapItems(f, walk_package_dir(f, package_path), cfg, patterns))

\* -------------------------------------------------------- ConflictResolver
\* a variant that leaves the link target of the action in place
mark_action_as_conflict_keeping_link(action) ==
    [action EXCEPT !.action_type = "Conflict",
                   !.conflict_details = IF action.conflict_details = "None"
                                        THEN "Inter-package conflict"
                                        ELSE action.conflict_details]

mark_action_as_conflict(action) ==
    [action EXCEPT !.action_type = "Conflict",
                   !.conflict_details = IF action.conflict_details = "None"
                                        THEN "Inter-package conflict"
                                        ELSE action.conflict_details,
                   !.link_target_path = NoLink]

\* build_target_map and mark_conflicting_actions: every non-Conflict action
\* whose target path is shared with another non-Conflict action
resolve_inter_package_conflicts(actions) ==
    [i \in 1..Len(actions) |->
        IF /\ actions[i].action_type # "Conflict"
           /\ \E j \in 1..Len(actions) :
                  /\ j # i
                  /\ actions[j].action_type # "Conflict"
                  /\ actions[j].target_path = actions[i].target_path
        THEN mark_action_as_conflict(actions[i])
        ELSE actions[i]]

collect_parent_conflicts(actions) ==
    {actions[i].target_path : i \in {j \in 1..Len(actions) : actions[j].action_type = "Conflict"}}

\* find_child_conflicts and apply_child_conflict_updates: one pass over the
\* set of conflicting paths collected before any child is marked
propagate_conflicts_to_children(actions) ==
    LET parent_conflicts == collect_parent_conflicts(actions) IN
    [i \in 1..Len(actions) |->
        IF /\ actions[i].action_type # "Conflict"
           /\ actions[i].target_path # <<>>
           /\ Parent(actions[i].target_path) \in parent_conflicts
        THEN [actions[i] EXCEPT !.action_type = "Conflict",
                                !.conflict_details = "Parent path is in conflict",
                                !.link_target_path = NoLink]
        ELSE actions[i]]

apply_conflict_resolution(actions) ==
    propagate_conflicts_to_children(resolve_inter_package_conflicts(actions))

\* ---------------------------------------------------------------- Executor
Report(action, status, message) ==
    [original_action |-> action, status |-> status, message |-> message]

\* the outcome of one action: the filesystem after it and its report
Outcome(f, action, status, message) == [fs |-> f, report |-> Report(action, status, message)]

execute_conflict_action(f, action) == Outcome(f, action, "ConflictPrevented", "CONFLICT")

execute_create_directory_action(f, action) ==
    LET Reported(r) ==
            IF r.ok THEN Outcome(r.fs, action, "Success", "created directory")
            ELSE Outcome(r.fs, action, "Failure", "Failed to create directory")
    IN  Reported(create_dir_all(f, action.target_path))

\* variant that removes whatever is at the target
remove_existing_target_any(f, action) ==
    IF action.target_path \in DOMAIN f THEN Ok(Remove(f, action.target_path)) ELSE Ok(f)

\* remove_existing_target: only a symlink is removed
remove_existing_target(f, action) ==
    IF path_exists(f, action.target_path)
    THEN IF is_symlink(f, action.target_path)
         THEN delete_symlink(f, action.target_path)
         ELSE Fail(f)
    ELSE Ok(f)

execute_create_symlink_action(f, action) ==
    LET parent_dir == Parent(action.target_path)
        Created(c) ==
            IF c.ok THEN Outcome(c.fs, action, "Success", "created symlink")
            ELSE Outcome(c.fs, action, "Failure", "Failed to create symlink")
        Removed(rm) ==
            IF ~rm.ok THEN Outcome(rm.fs, action, "Failure", "cannot override")
            ELSE Created(create_symlink(rm.fs, action.target_path, action.link_target_path))
        Ensured(p) ==
            IF ~p.ok THEN Outcome(p.fs, action, "Failure", "Failed to create parent directory")
            ELSE IF action.link_target_path = NoLink
            THEN Outcome(p.fs, action, "Failure", "missing link_target_path")
            ELSE Removed(remove_existing_target(p.fs, action))
    IN  Ensured(IF action.target_path # <<>> /\ ~path_exists(f, parent_dir)
                THEN create_dir_all(f, parent_dir)
                ELSE Ok(f))

execute_delete_symlink_action(f, action) ==
    LET Reported(r) ==
            IF r.ok THEN Outcome(r.fs, action, "Success", "deleted symlink")
            ELSE Outcome(f, action, "Failure", delete_symlink_error(f, action.target_path))
    IN  Reported(delete_symlink(f, action.target_path))

\* a variant that hands every existing target to delete_empty_dir
execute_delete_directory_action_unchecked(f, action) ==
    LET Reported(r) ==
            IF r.ok THEN Outcome(r.fs, action, "Success", "deleted empty directory")
            ELSE Outcome(f, action, "Failure", "Failed to delete directory")
    IN  IF ~path_exists(f, action.target_path)
        THEN Outcome(f, action, "Skipped", "does not exist")
        ELSE Reported(delete_empty_dir(f, action.target_path))

execute_delete_directory_action(f, action) ==
    LET Reported(r) ==
            IF r.ok THEN Outcome(r.fs, action, "Success", "deleted empty directory")
            ELSE Outcome(f, action, "Failure", "Failed to delete directory")
    IN  IF ~path_exists(f, action.target_path)
        THEN Outcome(f, action, "Skipped", "does not exist")
        ELSE IF ReadDirFails(f, action.target_path)
        THEN Outcome(f, action, "Failure", "Cannot read directory")
        ELSE IF Children(f, canonicalize_path(f, action.target_path)) # {}
        THEN Outcome(f, action, "Skipped", "not empty")
        ELSE Reported(delete_empty_dir(f, action.target_path))

execute_skip_action(f, action) == Outcome(f, action, "Skipped", action.conflict_details)

create_unimplemented_action_report(f, action) == Outcome(f, action, "Skipped", "not yet implemented")

execute_real_action(f, action) ==
    CASE action.action_type = "Conflict" -> execute_conflict_action(f, action)
      [] action.action_type = "CreateDirectory" -> execute_create_directory_action(f, action)
      [] action.action_type = "CreateSymlink" -> execute_create_symlink_action(f, action)
      [] action.action_type = "DeleteSymlink" -> execute_delete_symlink_action(f, action)
      [] action.action_type = "DeleteDirectory" -> execute_delete_directory_action(f, action)
      [] action.action_type = "Skip" -> execute_skip_action(f, action)
      [] OTHER -> create_unimplemented_action_report(f, action)

\* variant that performs the action and reports it as simulated
execute_simulate_action_performing(f, action) ==
    Outcome(execute_real_action(f, action).fs, action, "Skipped", "SIMULATE")

execute_simulate_action(f, action) == Outcome(f, action, "Skipped", "SIMULATE")

\* a variant that stops at the first action that fails or is prevented
RECURSIVE ExecuteFrom_until_failure(_, _, _, _)
ExecuteFrom_until_failure(f, actions, cfg, reports) ==
    IF actions = <<>> THEN [fs |-> f, reports |-> reports]
    ELSE LET Then(o) ==
                 IF o.report.status \in {"Failure", "ConflictPrevented"}
                 THEN [fs |-> o.fs, reports |-> Append(reports, o.report)]
                 ELSE ExecuteFrom_until_failure(o.fs, Tail(actions), cfg,
                                                Append(reports, o.report))
         IN  Then(IF cfg.simulate THEN execute_simulate_action(f, Head(actions))
                  ELSE execute_real_action(f, Head(actions)))

\* execute_actions: every action in plan order, each on the filesystem the
\* actions before it left
RECURSIVE ExecuteFrom(_, _, _, _)
ExecuteFrom(f, actions, cfg, reports) ==
    IF actions = <<>> THEN [fs |-> f, reports |-> reports]
    ELSE LET Then(o) == ExecuteFrom(o.fs, Tail(actions), cfg, Append(reports, o.report))
         IN  Then(IF cfg.simulate THEN execute_simulate_action(f, Head(actions))
                  ELSE execute_real_action(f, Head(actions)))

execute_actions(f, actions, cfg) == ExecuteFrom(f, actions, cfg, <<>>)

\* ----------------------------------------------------------- delete planner
validate_target_for_deletion(f, target_path_abs, stow_item, cfg) ==
    LET Decide(s) ==
            IF s.r = "Some"
            THEN IF s.item_path = stow_item.package_relative_path
                 THEN Decision("DeleteSymlink", "None", NoLink)
                 ELSE Decision("Skip", "belongs to different package item", NoLink)
            ELSE IF s.r = "None" THEN Decision("Skip", "is not a stow-managed symlink", NoLink)
            ELSE Decision("Conflict", "Error checking symlink", NoLink)
    IN  IF ~is_symlink(f, target_path_abs)
        THEN Decision("Skip", "exists but is not a symlink", NoLink)
        ELSE Decide(is_stow_symlink(f, target_path_abs, cfg.stow_dir))

plan_deletion_for_existing_target(f, stow_item, target_path_abs, cfg) ==
    LET Planned(d) == Action(stow_item, target_path_abs, NoLink, d.action_type, d.conflict_details)
    IN  Planned(IF stow_item.item_type = "Directory"
                THEN Decision("DeleteDirectory", "None", NoLink)
                ELSE validate_target_for_deletion(f, target_path_abs, stow_item, cfg))

create_skip_action_for_missing_target(stow_item, target_path_abs) ==
    Action(stow_item, target_path_abs, NoLink, "Skip", "Target does not exist, nothing to delete")

process_item_for_deletion(f, raw_item, cfg, patterns) ==
    LET rel == process_item_name(raw_item.package_relative_path, cfg.dotfiles) IN
    IF should_ignore_item(rel, patterns) THEN <<>>
    ELSE LET target_path_abs == Join(cfg.target_dir, rel)
             stow_item == create_stow_item_from_raw(raw_item, rel)
         IN  IF path_exists(f, target_path_abs)
             THEN <<plan_deletion_for_existing_target(f, stow_item, target_path_abs, cfg)>>
             ELSE <<create_skip_action_for_missing_target(stow_item, target_path_abs)>>

RECURSIVE FlatMapDeletions(_, _, _, _)
FlatMapDeletions(f, items, cfg, patterns) ==
    IF items = <<>> THEN <<>>
    ELSE process_item_for_deletion(f, Head(items), cfg, patterns)
         \o FlatMapDeletions(f, Tail(items), cfg, patterns)

\* plan_delete_actions: the actions in the order the package walk yields
plan_delete_actions(f, package_name, cfg, patterns) ==
    LET package_path == Append(cfg.stow_dir, package_name) IN
    IF validate_package_path(f, package_path) # "Ok" THEN ErrorPlan
    ELSE FlatMapDeletions(f, walk_package_dir(f, package_path), cfg, patterns)

\* ----------------------------------------------------- restow delete planner
create_delete_symlink_action(target_path) == Action(NoItem, target_path, NoLink, "DeleteSymlink", "None")

create_delete_directory_action(target_path) == Action(NoItem, target_path, NoLink, "DeleteDirectory", "None")

resolve_symlink_target(symlink_path, link_target) ==
    IF IsAbsolute(link_target) THEN Tail(link_target) ELSE Parent(symlink_path) \o link_target

is_target_under_package_path_manual(resolved_target, canonical_package_path) ==
    StartsWith(normalize_path_components(resolved_target), canonical_package_path)

\* variant without the fallback for broken symlinks
should_delete_symlink_canonical_only(f, resolved_target, canonical_package_path) ==
    LET Under(canonical_target) ==
            ~IsFailure(canonical_target) /\ StartsWith(canonical_target, canonical_package_path)
    IN  Under(canonicalize_path(f, resolved_target))

should_delete_symlink(f, resolved_target, canonical_package_path) ==
    LET Under(canonical_target) ==
            IF ~IsFailure(canonical_target)
            THEN StartsWith(canonical_target, canonical_package_path)
            ELSE is_target_under_package_path_manual(resolved_target, canonical_package_path)
    IN  Under(canonicalize_path(f, resolved_target))

\* a variant that tests the symlink against the stow directory as a whole
process_symlink_for_deletion_any_package(f, symlink_path, stow_dir, package_name) ==
    LET Planned(resolved_target, canonical_package_path) ==
            IF IsFailure(canonical_package_path) THEN ErrorPlan
            ELSE IF should_delete_symlink(f, resolved_target, Parent(canonical_package_path))
            THEN <<create_delete_symlink_action(symlink_path)>>
            ELSE <<>>
    IN  Planned(resolve_symlink_target(symlink_path, read_link(f, symlink_path)),
                canonicalize_path(f, Append(stow_dir, package_name)))

process_symlink_for_deletion(f, symlink_path, stow_dir, package_name) ==
    LET Planned(resolved_target, canonical_package_path) ==
            IF IsFailure(canonical_package_path) THEN ErrorPlan
            ELSE IF should_delete_symlink(f, resolved_target, canonical_package_path)
            THEN <<create_delete_symlink_action(symlink_path)>>
            ELSE <<>>
    IN  Planned(resolve_symlink_target(symlink_path, read_link(f, symlink_path)),
                canonicalize_path(f, Append(stow_dir, package_name)))

\* collect_stow_symlinks_for_package over the entries `names` of `dir`:
\* a symlink is tested, a directory is walked and then itself marked
RECURSIVE CollectEntries(_, _, _, _, _)
collect_stow_symlinks_for_package(f, dir, stow_dir, package_name) ==
    IF ~path_exists(f, dir) THEN <<>>
    ELSE IF ReadDirFails(f, dir) THEN ErrorPlan
    ELSE CollectEntries(f, dir, ReadDirNames(f, canonicalize_path(f, dir)), stow_dir, package_name)

CollectEntries(f, dir, names, stow_dir, package_name) ==
    IF names = <<>> THEN <<>>
    ELSE LET path == Append(dir, Head(names))
             here == IF is_symlink(f, path)
                     THEN process_symlink_for_deletion(f, path, stow_dir, package_name)
                     ELSE IF is_directory(f, path)
                     THEN Append(collect_stow_symlinks_for_package(f, path, stow_dir, package_name),
                                 create_delete_directory_action(path))
                     ELSE <<>>
         IN  here \o CollectEntries(f, dir, Tail(names), stow_dir, package_name)

\* stable sort: every DeleteSymlink before every DeleteDirectory
sort_deletion_actions(actions) ==
    SelectSeq(actions, LAMBDA a : a.action_type = "DeleteSymlink")
    \o SelectSeq(actions, LAMBDA a : a.action_type # "DeleteSymlink")

plan_restow_delete_actions(f, package_name, cfg) ==
    LET Sorted(actions) == IF HasError(actions) THEN ErrorPlan ELSE sort_deletion_actions(actions)
    IN  IF ~path_exists(f, Append(cfg.stow_dir, package_name)) THEN ErrorPlan
        ELSE Sorted(collect_stow_symlinks_for_package(f, cfg.target_dir, cfg.stow_dir, package_name))

\* ------------------------------------------------------------ Orchestrator
InvalidPatterns == {"("}

\* load_ignore_patterns_for_package fails on a pattern that does not compile
IgnoreLoadFails(patterns) == \E i \in 1..Len(patterns) : patterns[i] \in InvalidPatterns

PlanPackage(f, package_name, cfg, planner) ==
    LET Planned(patterns) ==
            IF IgnoreLoadFails(patterns) THEN ErrorPlan
            ELSE IF planner = "stow" THEN plan_actions(f, package_name, cfg, patterns)
            ELSE plan_delete_actions(f, package_name, cfg, patterns)
    IN  Planned(IgnoreLoad(f, cfg.stow_dir, package_name, cfg.home_dir))

\* collect_package_actions: the plans of the packages in order; the first
\* error aborts, and nothing has been executed by then
RECURSIVE collect_package_actions(_, _, _, _)
collect_package_actions(f, packages, cfg, planner) ==
    IF packages = <<>> THEN <<>>
    ELSE LET Both(here, rest) == IF HasError(rest) THEN ErrorPlan ELSE here \o rest
             Then(here) ==
                 IF HasError(here) THEN ErrorPlan
                 ELSE Both(here, collect_package_actions(f, Tail(packages), cfg, planner))
         IN  Then(PlanPackage(f, Head(packages), cfg, planner))

RunResult(result, f, plan, reports) ==
    [result |-> result, fs |-> f, plan |-> plan, reports |-> reports]

stow_packages(f, cfg) ==
    LET Executed(all_planned_actions, e) == RunResult("Ok", e.fs, all_planned_actions, e.reports)
        Resolved(all_planned_actions) ==
            Executed(all_planned_actions, execute_actions(f, all_planned_actions, cfg))
        Planned(planned) ==
            IF HasError(planned) THEN RunResult("Err", f, <<>>, <<>>)
            ELSE Resolved(apply_conflict_resolution(planned))
    IN  IF cfg.packages = <<>> THEN RunResult("Ok", f, <<>>, <<>>)
        ELSE Planned(collect_package_actions(f, cfg.packages, cfg, "stow"))

delete_packages(f, cfg) ==
    LET Executed(planned, e) == RunResult("Ok", e.fs, planned, e.reports)
        Planned(planned) ==
            IF HasError(planned) THEN RunResult("Err", f, <<>>, <<>>)
            ELSE Executed(planned, execute_actions(f, planned, cfg))
    IN  IF cfg.packages = <<>> THEN RunResult("Ok", f, <<>>, <<>>)
        ELSE Planned(collect_package_actions(f, cfg.packages, cfg, "delete"))

\* execute_restow_deletion_phase: each package's deletions are planned on the
\* filesystem the deletions of the packages before it left, and executed
RECURSIVE execute_restow_deletion_phase(_, _, _, _, _)
execute_restow_deletion_phase(f, packages, cfg, plan, reports) ==
    IF packages = <<>> THEN RunResult("Ok", f, plan, reports)
    ELSE LET Executed(delete_actions, e) ==
                 execute_restow_deletion_phase(e.fs, Tail(packages), cfg,
                                               plan \o delete_actions, reports \o e.reports)
             Planned(delete_actions) ==
                 IF HasError(delete_actions) THEN RunResult("Err", f, plan, reports)
                 ELSE Executed(delete_actions, execute_actions(f, delete_actions, cfg))
         IN  Planned(plan_restow_delete_actions(f, Head(packages), cfg))

restow_packages(f, cfg) ==
    LET Both(d, s) ==
            IF s.result = "Err" THEN RunResult("Err", s.fs, <<>>, <<>>)
            ELSE RunResult("Ok", s.fs, d.plan \o s.plan, d.reports \o s.reports)
        Deleted(d) ==
            IF d.result = "Err" THEN RunResult("Err", d.fs, <<>>, <<>>)
            ELSE Both(d, stow_packages(d.fs, cfg))
    IN  Deleted(execute_restow_deletion_phase(f, cfg.packages, cfg, <<>>, <<>>))

\* lib.rs run and main: the reports are printed and the result is Ok(()) when
\* the mode's function returned its reports, whatever their statuses; the
\* process exits with 1 only on Err
process_exit(result) == IF result = "Err" THEN 1 ELSE 0

\* ------------------------------------------------- the filesystems at start
World == <<"W">>
StowDir == <<"W", "S">>
SiblingTarget == <<"W", "T">>
HomeDir == <<"W", "H">>
Packages == {"p1", "p2"}
\* the package the user edits between invocations
EditablePackages == {"p1"}

\* a set of <<path, entry>> pairs as a filesystem
FsOf(entries) == [q \in {e[1] : e \in entries} |-> (CHOOSE e \in entries : e[1] = q)[2]]

\* the pairs of a tree, moved below the directory at
Below(at, tree) == {<<at \o e[1], e[2]>> : e \in tree}

BaseEntries ==
    {<<<<>>, Dir>>, <<World, Dir>>, <<StowDir, Dir>>,
     <<StowDir \o <<"p1">>, Dir>>, <<StowDir \o <<"p2">>, Dir>>,
     <<World \o <<"X">>, Dir>>, <<World \o <<"X", "file">>, File("foreign")>>}

\* package contents, as paths from the package root
TreeFile == {<<<<"f">>, File("pkg")>>}
TreeDir == {<<<<"d">>, Dir>>, <<<<"d", "g">>, File("pkg")>>}
TreeDeep == {<<<<"d">>, Dir>>, <<<<"d", "e">>, Dir>>, <<<<"d", "e", "h">>, File("pkg")>>}
TreeFileAtDir == {<<<<"d">>, File("pkg")>>}
TreeLink == {<<<<"f">>, File("pkg")>>, <<<<"l">>, Link(<<"f">>)>>}
TreeDot == {<<<<"dot-c">>, File("pkg")>>, <<<<"d">>, Dir>>}
TreeIgnoreGlobal == {<<<<"README">>, File("pkg")>>, <<<<"g">>, File("pkg")>>}
TreeIgnoreDefault ==
    {<<<<"README">>, File("pkg")>>, <<<<"d">>, Dir>>, <<<<"d", "README">>, File("pkg")>>}
TreeIgnoreLocal ==
    {<<<<".stow-local-ignore">>, File("^d$")>>, <<<<"README">>, File("pkg")>>,
     <<<<"d">>, Dir>>, <<<<"d", "g">>, File("pkg")>>, <<<<"g">>, File("pkg")>>}
TreeBadIgnore == TreeFile \cup {<<<<".stow-local-ignore">>, File("(")>>}
TreeDotEdge == {<<<<"dot-">>, File("pkg")>>, <<<<"dot-.">>, File("pkg")>>}
TreeDirAtFile == {<<<<"f">>, Dir>>}
TreeDotNested == {<<<<"dot-c">>, Dir>>, <<<<"dot-c", "dot-c">>, File("pkg")>>}

\* what the target root holds before the first invocation
TargetEmpty == {}
TargetPlainFile == {<<<<"f">>, File("existing")>>}
TargetForeignDir == {<<<<"d">>, Dir>>, <<<<"d", "x">>, File("existing")>>}
TargetForeignLink == {<<<<"f">>, Link(<<"..", "X", "file">>)>>}
TargetUnreadableDir == {<<<<"d">>, DirNoRead>>}
\* symlinks to the stow directory itself, to a package, and to a path that
\* runs through a regular file
TargetOddLinks ==
    {<<<<"x">>, Link(<<"..", "S">>)>>, <<<<"h">>, Link(<<"..", "S", "p2">>)>>,
     <<<<"e">>, Link(<<"..", "X", "file", "x">>)>>}
\* the directory d of an installed package, next to whose link the user has
\* put a file of their own
TargetInstalledBeside ==
    {<<<<"d">>, Dir>>, <<<<"d", "x">>, File("existing")>>,
     <<<<"d", "g">>, Link(<<"..", "..", "S", "p1", "d", "g">>)>>}
TargetDangling == {<<<<"f">>, Link(<<"nowhere">>)>>}

\* what the home directory holds: nothing (it is not there), or the global
\* ignore file
HomeNone == {}
HomeGlobal == {<<<<>>, Dir>>, <<<<".stow-global-ignore">>, File("^g$")>>}

\* the starting points: the tree of p1, the tree of p2, the target root, what
\* it holds and the home directory
Scenarios ==
    {<<TreeFile, TreeFile, SiblingTarget, TargetEmpty, HomeNone>>,
     <<TreeFile, TreeFile, SiblingTarget, TargetPlainFile, HomeNone>>,
     <<TreeFile, TreeFile, SiblingTarget, TargetForeignLink, HomeNone>>,
     <<TreeFile, TreeFile, SiblingTarget, TargetDangling, HomeNone>>,
     <<TreeFile, TreeFile, SiblingTarget, TargetOddLinks, HomeNone>>,
     <<TreeDir, TreeDir, SiblingTarget, TargetEmpty, HomeNone>>,
     <<TreeDir, TreeFileAtDir, SiblingTarget, TargetEmpty, HomeNone>>,
     <<TreeDir, TreeFile, SiblingTarget, TargetForeignDir, HomeNone>>,
     <<TreeDir, TreeFile, SiblingTarget, TargetInstalledBeside, HomeNone>>,
     <<TreeDir, TreeFile, SiblingTarget, TargetUnreadableDir, HomeNone>>,
     <<TreeDeep, TreeFileAtDir, SiblingTarget, TargetEmpty, HomeNone>>,
     <<TreeDeep, TreeFile, SiblingTarget, TargetEmpty, HomeNone>>,
     <<TreeDeep, TreeDir, SiblingTarget, TargetForeignDir, HomeNone>>,
     <<TreeLink, TreeFile, SiblingTarget, TargetEmpty, HomeNone>>,
     <<TreeDot, TreeFile, SiblingTarget, TargetEmpty, HomeNone>>,
     <<TreeDot, TreeDir, SiblingTarget, TargetEmpty, HomeNone>>,
     <<TreeDotNested, TreeFile, SiblingTarget, TargetEmpty, HomeNone>>,
     <<TreeFile, TreeDotEdge, SiblingTarget, TargetEmpty, HomeNone>>,
     <<TreeFile, TreeDirAtFile, SiblingTarget, TargetEmpty, HomeNone>>,
     <<TreeFile, TreeDirAtFile, SiblingTarget, TargetPlainFile, HomeNone>>,
     <<TreeFile, TreeBadIgnore, SiblingTarget, TargetEmpty, HomeNone>>,
     <<TreeFile, TreeFile, World, TargetEmpty, HomeNone>>,
     <<TreeDir, TreeFileAtDir, World, TargetEmpty, HomeNone>>,
     <<TreeLink, TreeFile, World, TargetPlainFile, HomeNone>>,
     <<TreeDot, TreeDir, World, TargetEmpty, HomeNone>>,
     <<TreeDeep, TreeFile, World, TargetEmpty, HomeNone>>}

\* the starting points with ignore files and names that patterns match
IgnoreScenarios ==
    {<<TreeIgnoreGlobal, TreeIgnoreLocal, SiblingTarget, TargetEmpty, HomeGlobal>>,
     <<TreeIgnoreDefault, TreeIgnoreLocal, SiblingTarget, TargetEmpty, HomeNone>>}

InitialFs(t1, t2, target_dir, content, home) ==
    FsOf(BaseEntries \cup {<<target_dir, Dir>>}
         \cup Below(StowDir \o <<"p1">>, t1) \cup Below(StowDir \o <<"p2">>, t2)
         \cup Below(target_dir, content) \cup Below(HomeDir, home))

\* ------------------------------------------------------------ configuration
Options(simulate, adopt, dotfiles, overrides, defers) ==
    [simulate |-> simulate, adopt |-> adopt, dotfiles |-> dotfiles,
     overrides |-> overrides, defers |-> defers, ignore_patterns |-> {}]

\* the options of an invocation with --ignore patterns and nothing else
IgnoreOptions(ignore_patterns) ==
    [Options(FALSE, FALSE, FALSE, {}, {}) EXCEPT !.ignore_patterns = ignore_patterns]

OptionSets ==
    {Options(FALSE, FALSE, FALSE, {}, {}),
     Options(TRUE, FALSE, FALSE, {}, {}),
     Options(FALSE, TRUE, FALSE, {}, {}),
     Options(TRUE, TRUE, FALSE, {}, {}),
     Options(FALSE, FALSE, TRUE, {}, {}),
     Options(FALSE, FALSE, FALSE, {"f$"}, {}),
     Options(FALSE, FALSE, FALSE, {"f$"}, {"f$"}),
     IgnoreOptions({"f$"})}

\* "p3" is a package that is not in the stow directory
PackageLists == {<<"p1">>, <<"p2">>, <<"p1", "p2">>, <<"p1", "p3">>}

Modes == {"Stow", "Delete", "Restow"}

\* Config::from_args: the roots are canonical, the rest is taken as given
Config(mode, packages, target_dir, o) ==
    [mode |-> mode, packages |-> packages, target_dir |-> target_dir,
     stow_dir |-> StowDir, home_dir |-> HomeDir,
     simulate |-> o.simulate, adopt |-> o.adopt, dotfiles |-> o.dotfiles,
     overrides |-> o.overrides, defers |-> o.defers,
     ignore_patterns |-> o.ignore_patterns]

NoConfig == Config("None", <<>>, <<>>, Options(FALSE, FALSE, FALSE, {}, {}))

\* -------------------------------------------------------------- the machine
\* run.carry: when this invocation repeats, mode aside, the configuration of
\* the real stow that ended just before it, the filesystem before that stow
\* and whether that stow reported no ConflictPrevented and no Failure
NoCarry == [present |-> FALSE, pre |-> <<>>, clean |-> FALSE]

Idle(target_dir) ==
    [phase |-> "idle", cfg |-> [NoConfig EXCEPT !.target_dir = target_dir], pre |-> <<>>,
     result |-> "None", plan |-> <<>>, reports |-> <<>>, carry |-> NoCarry]

Statuses(reports) == {reports[i].status : i \in 1..Len(reports)}

Clean(reports) == Statuses(reports) \cap {"ConflictPrevented", "Failure"} = {}

Init ==
    \E sc \in Scenarios :
        /\ fs = InitialFs(sc[1], sc[2], sc[3], sc[4], sc[5])
        /\ run = Idle(sc[3])

InitIgnore ==
    \E sc \in IgnoreScenarios :
        /\ fs = InitialFs(sc[1], sc[2], sc[3], sc[4], sc[5])
        /\ run = Idle(sc[3])

\* lib.rs run: the configuration of the next invocation is built
Invoke(mode, packages, o) ==
    /\ run.phase # "pending"
    /\ LET cfg == Config(mode, packages, run.cfg.target_dir, o) IN
       run' = [phase |-> "pending", cfg |-> cfg, pre |-> fs,
               result |-> "None", plan |-> <<>>, reports |-> <<>>,
               carry |-> IF /\ run.phase = "done"
                            /\ run.cfg.mode = "Stow"
                            /\ ~run.cfg.simulate
                            /\ run.result = "Ok"
                            /\ [cfg EXCEPT !.mode = "Stow"] = run.cfg
                         THEN [present |-> TRUE, pre |-> run.pre, clean |-> Clean(run.reports)]
                         ELSE NoCarry]
    /\ UNCHANGED fs

Finish(r) ==
    /\ fs' = r.fs
    /\ run' = [run EXCEPT !.phase = "done", !.result = r.result,
                          !.plan = r.plan, !.reports = r.reports]

StowPackages ==
    /\ run.phase = "pending"
    /\ run.cfg.mode = "Stow"
    /\ Finish(stow_packages(fs, run.cfg))

DeletePackages ==
    /\ run.phase = "pending"
    /\ run.cfg.mode = "Delete"
    /\ Finish(delete_packages(fs, run.cfg))

RestowPackages ==
    /\ run.phase = "pending"
    /\ run.cfg.mode = "Restow"
    /\ Finish(restow_packages(fs, run.cfg))

\* between invocations the user replaces one file of a package by a new file
\* "n" in the same directory
EditPackage(package_name) ==
    /\ run.phase # "pending"
    /\ \E q \in DOMAIN fs :
          /\ StartsWith(q, Append(StowDir, package_name))
          /\ fs[q].k = "file"
          /\ Append(Parent(q), "n") \notin DOMAIN fs
          /\ fs' = (Append(Parent(q), "n") :> File("new")) @@ Remove(fs, q)
    /\ run' = Idle(run.cfg.target_dir)

Next ==
    \/ \E mode \in Modes, packages \in PackageLists, o \in OptionSets : Invoke(mode, packages, o)
    \/ StowPackages
    \/ DeletePackages
    \/ RestowPackages
    \/ \E package_name \in EditablePackages : EditPackage(package_name)

Spec == Init /\ [][Next]_vars

\* the same machine started from the filesystems with ignore files
IgnoreSpec == InitIgnore /\ [][Next]_vars

\* every entry but the root has a directory as its parent
WellFormed ==
    \A q \in DOMAIN fs : q = <<>> \/ (Parent(q) \in DOMAIN fs /\ fs[Parent(q)].k = "dir")

\* ---------------------------------------------------------------- properties
Done == run.phase = "done"

\* an invocation of the given mode has ended, not simulated, without Err
RealDone(mode) == Done /\ run.cfg.mode = mode /\ ~run.cfg.simulate /\ run.result = "Ok"

\* strictly inside the target root of the invocation
UnderTarget(q) == StartsWith(q, run.cfg.target_dir) /\ q # run.cfg.target_dir

ReportIndices == 1..Len(run.reports)

\* C1: a stow that repeats a stow which reported no conflict and no failure
\* reports only Skipped for file and symlink items and Success for
\* CreateDirectory on directories that exist already, and changes nothing
C1_StowTwiceIsIdempotent ==
    (RealDone("Stow") /\ run.carry.present /\ run.carry.clean) =>
        /\ fs = run.pre
        /\ \A i \in ReportIndices :
               LET r == run.reports[i] IN
               \/ /\ r.status = "Skipped"
                  /\ r.original_action.source_item.item_type \in {"File", "Symlink"}
               \/ /\ r.status = "Success"
                  /\ r.original_action.action_type = "CreateDirectory"
                  /\ is_directory(run.pre, r.original_action.target_path)

\* C2: a delete that follows a stow of the same packages (one that overrode
\* nothing and reported no conflict and no failure) leaves the target as it
\* was before the stow, up to empty directories: no symlink the stow made is
\* left, every file and symlink of before is still there unchanged, and
\* whatever is new is a directory
C2_StowThenDeleteRestores ==
    (RealDone("Delete") /\ run.carry.present /\ run.carry.clean /\ run.cfg.overrides = {}) =>
        /\ \A q \in DOMAIN fs :
               (UnderTarget(q) /\ fs[q].k = "link") => q \in DOMAIN run.carry.pre
        /\ \A q \in DOMAIN run.carry.pre :
               run.carry.pre[q].k # "dir" => (q \in DOMAIN fs /\ fs[q] = run.carry.pre[q])
        /\ \A q \in DOMAIN fs \ DOMAIN run.carry.pre : fs[q].k = "dir"

\* the packages named on the command line
Invoked == {run.cfg.packages[i] : i \in 1..Len(run.cfg.packages)}

\* the symlinks under the target root, outside the stow directory, that a
\* stow left in f for an item that has since gone from package p
OldLinksOf(f, p) ==
    {q \in DOMAIN f :
        /\ UnderTarget(q) /\ ~StartsWith(q, run.cfg.stow_dir)
        /\ f[q].k = "link"
        /\ NormalizeFrom(Parent(q), f[q].v) \notin DOMAIN f
        /\ StartsWith(NormalizeFrom(Parent(q), f[q].v), Append(run.cfg.stow_dir, p))}

\* the invoked packages that lost an item since they were stowed
EditedPackages == {p \in Invoked : OldLinksOf(run.pre, p) # {}}

OldLinks == UNION {OldLinksOf(run.pre, p) : p \in EditedPackages}

\* the reports of this invocation on a file item of an edited package that had
\* nothing at its target before the invocation
NewItemReports ==
    {i \in ReportIndices :
        /\ run.reports[i].original_action.source_item.item_type = "File"
        /\ run.reports[i].original_action.target_path \notin DOMAIN run.pre
        /\ \E p \in EditedPackages :
              StartsWith(run.reports[i].original_action.source_item.source_path,
                         Append(run.cfg.stow_dir, p))}

\* the target of the action is now a symlink that resolves to the item
Linked(a) ==
    /\ a.target_path \in DOMAIN fs
    /\ fs[a.target_path].k = "link"
    /\ canonicalize_path(fs, a.target_path) = a.source_item.source_path

PlanIndices == 1..Len(run.plan)

\* the entry at q is the same before and after the invocation
Untouched(q) ==
    /\ (q \in DOMAIN run.pre) = (q \in DOMAIN fs)
    /\ q \in DOMAIN fs => fs[q] = run.pre[q]

\* C4: after a stow, whatever is at the target path of a Conflict action is
\* what was there before: no action of the plan changed it, not even as a
\* side effect
C4_ConflictTargetUntouched ==
    (RealDone("Stow")) =>
        \A i \in PlanIndices :
            run.plan[i].action_type = "Conflict" => Untouched(run.plan[i].target_path)

\* q is a strict lexical ancestor of t
StrictAncestor(q, t) == StartsWith(t, q) /\ q # t

\* C5: in the final plan of a stow of any number of packages no action that
\* is not a Conflict has the target path of a Conflict action as an ancestor
\* of its target path
C5_NoActionBelowConflict ==
    (Done /\ run.cfg.mode = "Stow" /\ run.result = "Ok") =>
        \A i, j \in PlanIndices :
            (run.plan[i].action_type = "Conflict" /\ run.plan[j].action_type # "Conflict")
                => ~StrictAncestor(run.plan[i].target_path, run.plan[j].target_path)

\* C6: in the final plan of a stow no two actions that are not Conflict share a
\* target path; the actions the resolver marked are reported ConflictPrevented
\* and nothing is created at their target path
C6_InterPackageConflict ==
    (RealDone("Stow")) =>
        /\ \A i, j \in PlanIndices :
               (i # j /\ run.plan[i].target_path = run.plan[j].target_path)
                   => (run.plan[i].action_type = "Conflict" \/ run.plan[j].action_type = "Conflict")
        /\ \A i \in PlanIndices :
               run.plan[i].conflict_details = "Inter-package conflict" =>
                   /\ run.plan[i].action_type = "Conflict"
                   /\ run.reports[i].status = "ConflictPrevented"
                   /\ run.plan[i].target_path \notin DOMAIN run.pre
                          => run.plan[i].target_path \notin DOMAIN fs

C8_SimulateChangesNothing ==
    (Done /\ run.cfg.simulate) =>
        /\ fs = run.pre
        /\ \A i \in ReportIndices : run.reports[i].status = "Skipped"

\* a simulated restow with adopt planned a symlink deletion and a symlink
\* creation
C8_Witness ==
    /\ Done /\ run.cfg.simulate /\ run.cfg.adopt /\ run.cfg.mode = "Restow"
    /\ \E i, j \in ReportIndices :
          /\ run.reports[i].original_action.action_type = "DeleteSymlink"
          /\ run.reports[j].original_action.action_type = "CreateSymlink"

\* the package an item was read from
PackageOf(item) == item.source_path[Len(run.cfg.stow_dir) + 1]

C10_AdoptMovesTheFile ==
    (RealDone("Stow") /\ run.cfg.adopt) =>
        \A i \in PlanIndices :
            LET a == run.plan[i] IN
            (/\ a.source_item.item_type = "File"
             /\ a.target_path \in DOMAIN run.pre
             /\ run.pre[a.target_path].k = "file")
                => /\ a.action_type = "AdoptFile"
                   /\ fs[a.source_item.source_path] = run.pre[a.target_path]
                   /\ Linked(a)

\* the path of the action's target from the target root matches a defer regex
Deferred(a) ==
    /\ StartsWith(a.target_path, run.cfg.target_dir)
    /\ \E pat \in run.cfg.defers :
           PathRegexMatches(pat, StripPrefix(a.target_path, run.cfg.target_dir))

\* the same for an override regex
Overridden(a) ==
    /\ StartsWith(a.target_path, run.cfg.target_dir)
    /\ \E pat \in run.cfg.overrides :
           PathRegexMatches(pat, StripPrefix(a.target_path, run.cfg.target_dir))

\* C11: in a stow, a file item whose target exists (a symlink that resolves
\* nowhere aside) and matches a defer regex is planned as Skip in the final
\* plan, reported Skipped, and its target is left as it was
C11_DeferWins ==
    (RealDone("Stow")) =>
        \A i \in PlanIndices :
            LET a == run.plan[i] IN
            (/\ a.source_item.item_type = "File"
             /\ path_exists(run.pre, a.target_path)
             /\ Deferred(a))
                => /\ a.action_type = "Skip"
                   /\ run.reports[i].status = "Skipped"
                   /\ Untouched(a.target_path)

\* before the invocation the target of the action was a symlink resolving to
\* an item of a package other than the action's own
ManagedByOther(a) ==
    /\ a.target_path \in DOMAIN run.pre
    /\ run.pre[a.target_path].k = "link"
    /\ StartsWith(canonicalize_path(run.pre, a.target_path), run.cfg.stow_dir)
    /\ Len(canonicalize_path(run.pre, a.target_path)) > Len(run.cfg.stow_dir) + 1
    /\ canonicalize_path(run.pre, a.target_path)[Len(run.cfg.stow_dir) + 1]
           # PackageOf(a.source_item)

\* C12: in a stow, a file item whose target is a symlink managed by another
\* package and matches an override regex and no defer regex is planned as
\* CreateSymlink; afterwards the target is a symlink resolving to the item
\* and the other package's file is as it was
C12_OverrideReplaces ==
    (RealDone("Stow")) =>
        \A i \in PlanIndices :
            LET a == run.plan[i] IN
            (/\ a.source_item.item_type = "File"
             /\ ManagedByOther(a)
             /\ Overridden(a)
             /\ ~Deferred(a))
                => /\ a.action_type = "CreateSymlink"
                   /\ Linked(a)
                   /\ Untouched(canonicalize_path(run.pre, a.target_path))

\* C13: in the actions a delete or a restow executes, no DeleteDirectory
\* comes before a DeleteSymlink whose target lies below the directory
C13_LinksBeforeDirectories ==
    (Done /\ run.cfg.mode \in {"Delete", "Restow"}) =>
        \A i \in PlanIndices : \A j \in PlanIndices :
            (/\ i < j
             /\ run.plan[i].action_type = "DeleteDirectory"
             /\ run.plan[j].action_type = "DeleteSymlink")
                => ~StrictAncestor(run.plan[i].target_path, run.plan[j].target_path)

\* what the target root held in f besides the stow directory and the
\* directory of foreign files
HeldInTarget(f) ==
    {q \in DOMAIN f :
        /\ UnderTarget(q)
        /\ ~StartsWith(q, run.cfg.stow_dir)
        /\ ~StartsWith(q, World \o <<"X">>)}

\* C14: a delete that follows a clean stow of the same packages into a target
\* that held nothing else removes every directory that stow created
C14_DeleteRemovesCreatedDirectories ==
    (/\ RealDone("Delete")
     /\ run.carry.present /\ run.carry.clean
     /\ HeldInTarget(run.carry.pre) = {}) =>
        \A q \in DOMAIN run.pre \ DOMAIN run.carry.pre :
            run.pre[q].k = "dir" => q \notin DOMAIN fs

\* the actions of the final plan that created a symlink
CreatedLinks ==
    {i \in PlanIndices :
        /\ run.plan[i].action_type = "CreateSymlink"
        /\ run.reports[i].status = "Success"}

RewriteEachComponent(rel) == [i \in 1..Len(rel) |-> StripDot(rel[i])]

\* C16: the target of every planned action of a stow is the package-relative
\* path of its item below the target root, with every "dot-" component
\* rewritten when the dotfiles option is on and unchanged when it is off
C16_DotfilesComponentwise ==
    (Done /\ run.cfg.mode = "Stow" /\ run.result = "Ok") =>
        \A i \in PlanIndices :
            LET a == run.plan[i] IN
            a.target_path
                = run.cfg.target_dir
                    \o (IF run.cfg.dotfiles
                        THEN RewriteEachComponent(a.source_item.package_relative_path)
                        ELSE a.source_item.package_relative_path)

\* the items of package p in f, as source paths
ItemsOf(f, p) == {q \in DOMAIN f : StrictAncestor(Append(run.cfg.stow_dir, p), q)}

\* the items of package p that have an action in the final plan
PlannedItems(p) ==
    {run.plan[i].source_item.source_path :
        i \in {j \in PlanIndices : StartsWith(run.plan[j].source_item.source_path,
                                              Append(run.cfg.stow_dir, p))}}

\* the path of an item as the ignore check sees it
IgnoreCheckPath(p, q) ==
    process_item_name(StripPrefix(q, Append(run.cfg.stow_dir, p)), run.cfg.dotfiles)

LocalIgnoreFile(p) == run.cfg.stow_dir \o <<p, ".stow-local-ignore">>

GlobalIgnoreFile == Append(run.cfg.home_dir, ".stow-global-ignore")

\* the lines of the regular file at q before the invocation
LinesOf(q) == run.pre[canonicalize_path(run.pre, q)].v

\* the one source of patterns that counts for package p
ActivePatterns(p) ==
    IF is_file(run.pre, LocalIgnoreFile(p)) THEN LinesOf(LocalIgnoreFile(p))
    ELSE IF is_file(run.pre, GlobalIgnoreFile) THEN LinesOf(GlobalIgnoreFile)
    ELSE DefaultPatterns

\* C17: the items of a package that a stow plans are those that the patterns
\* of one source do not ignore: the local ignore file of the package if it is
\* a regular file, else the global one if it is a regular file, else the
\* built-in defaults
C17_OneIgnoreSource ==
    (Done /\ run.cfg.mode = "Stow" /\ run.result = "Ok") =>
        \A p \in Invoked :
            PlannedItems(p)
                = {q \in ItemsOf(run.pre, p) :
                       ~should_ignore_item(IgnoreCheckPath(p, q), ActivePatterns(p))}

\* a stow of p1, which has no local ignore file, and of p2, which has one,
\* while there is a global ignore file: p2's README and g are planned, which
\* the defaults and the global file would ignore, and of p1 README is planned
\* and g is not
C17_Witness ==
    /\ Done /\ run.cfg.mode = "Stow" /\ run.result = "Ok"
    /\ Invoked = {"p1", "p2"}
    /\ ~is_file(run.pre, LocalIgnoreFile("p1"))
    /\ is_file(run.pre, LocalIgnoreFile("p2"))
    /\ is_file(run.pre, GlobalIgnoreFile)
    /\ {LocalIgnoreFile("p2"), run.cfg.stow_dir \o <<"p2", "README">>,
        run.cfg.stow_dir \o <<"p2", "g">>} \subseteq PlannedItems("p2")
    /\ run.cfg.stow_dir \o <<"p1", "README">> \in PlannedItems("p1")
    /\ run.cfg.stow_dir \o <<"p1", "g">> \in ItemsOf(run.pre, "p1") \ PlannedItems("p1")

\* a pattern with "/" matches the path, or a pattern without "/" matches the
\* name of the item or of a directory above it
MatchedBySomePattern(rel, patterns) ==
    \E i \in 1..Len(patterns) :
        \/ PatternHasSlash(patterns[i]) /\ RegexMatchesPath(patterns[i], rel)
        \/ /\ ~PatternHasSlash(patterns[i])
           /\ \E j \in 1..Len(rel) : RegexMatchesName(patterns[i], rel[j])

\* the patterns loaded for package p at the start of the invocation
LoadedPatterns(p) == IgnoreLoad(run.pre, run.cfg.stow_dir, p, run.cfg.home_dir)

\* C18: an item of a stowed or deleted package has no planned action exactly
\* when a pattern with "/" matches its path or a pattern without "/" matches
\* its name or the name of a directory above it
C18_IgnoreClassification ==
    (Done /\ run.cfg.mode \in {"Stow", "Delete"} /\ run.result = "Ok") =>
        \A p \in Invoked : \A q \in ItemsOf(run.pre, p) :
            (q \notin PlannedItems(p))
                <=> MatchedBySomePattern(IgnoreCheckPath(p, q), LoadedPatterns(p))

\* p1 is planned under the defaults: README at its root is left out, d/README
\* is planned; p2 is planned under the pattern ^d$ of its local file: d and
\* what is below d is left out
C18_Witness ==
    /\ Done /\ run.cfg.mode = "Stow" /\ run.result = "Ok"
    /\ Invoked = {"p1", "p2"}
    /\ LoadedPatterns("p1") = DefaultPatterns
    /\ LoadedPatterns("p2") = <<"^d$">>
    /\ run.cfg.stow_dir \o <<"p1", "README">> \in ItemsOf(run.pre, "p1") \ PlannedItems("p1")
    /\ run.cfg.stow_dir \o <<"p1", "d", "README">> \in PlannedItems("p1")
    /\ {run.cfg.stow_dir \o <<"p2", "d">>, run.cfg.stow_dir \o <<"p2", "d", "g">>}
           \subseteq ItemsOf(run.pre, "p2") \ PlannedItems("p2")
    /\ run.cfg.stow_dir \o <<"p2", "README">> \in PlannedItems("p2")

\* C19: no action is planned for an item whose path below the target matches
\* a pattern given with --ignore
C19_CommandLineIgnore ==
    (Done /\ run.result = "Ok") =>
        \A i \in PlanIndices :
            run.plan[i].source_item # NoItem
                => ~\E pat \in run.cfg.ignore_patterns :
                        PathRegexMatches(
                            pat, run.plan[i].source_item.target_name_after_dotfiles_processing)

\* a package named on the command line is missing or not a directory, or
\* the ignore patterns of one fail to load
PackageOrIgnoreError ==
    \E p \in Invoked :
        \/ validate_package_path(run.pre, Append(run.cfg.stow_dir, p)) # "Ok"
        \/ IgnoreLoadFails(LoadedPatterns(p))

\* C20: an invocation that returns an error because of a package error or an
\* ignore-file load error has executed nothing: the filesystem is as it was
C20_ErrorBeforeAnyAction ==
    (Done /\ run.result = "Err" /\ PackageOrIgnoreError) => fs = run.pre

C22_ExitCodeAggregatesReports ==
    (Done /\ run.result = "Ok") =>
        (process_exit(run.result) = 0
             <=> Statuses(run.reports) \subseteq {"Success", "Skipped"})

\* what the invocation returns when it is run with --simulate from the
\* filesystem it started from
SimulatedRun ==
    LET RunOf(cfg) ==
            IF cfg.mode = "Stow" THEN stow_packages(run.pre, cfg)
            ELSE IF cfg.mode = "Delete" THEN delete_packages(run.pre, cfg)
            ELSE restow_packages(run.pre, cfg)
    IN  RunOf([run.cfg EXCEPT !.simulate = TRUE])

\* two runs report the same actions: as many, of the same kind and target
SameActions(r1, r2) ==
    /\ Len(r1.reports) = Len(r2.reports)
    /\ \A i \in 1..Len(r1.reports) :
           /\ i <= Len(r2.reports)
           /\ r1.reports[i].original_action.action_type
                  = r2.reports[i].original_action.action_type
           /\ r1.reports[i].original_action.target_path
                  = r2.reports[i].original_action.target_path

\* C23: a real run and the simulate run from the same filesystem and
\* configuration report the same sequence of actions
C23_SimulateReportsSameActions ==
    (Done /\ ~run.cfg.simulate /\ run.result = "Ok") =>
        LET Same(s) == s.result = "Ok" /\ SameActions(run, s)
        IN  Same(SimulatedRun)

\* the action has a link target exactly when it is a CreateSymlink, and a
\* conflict detail when it is a Conflict
WellShaped(a) ==
    /\ a.action_type = "CreateSymlink" => a.link_target_path # NoLink
    /\ a.action_type \in {"CreateDirectory", "DeleteSymlink", "DeleteDirectory",
                          "Conflict", "Skip"} => a.link_target_path = NoLink
    /\ a.action_type = "Conflict" => a.conflict_details # "None"

\* the plan of a stow as the planner leaves it, before the ConflictResolver
PlannerPlan == collect_package_actions(run.pre, run.cfg.packages, run.cfg, "stow")

\* C24: every action of every plan, the planner's own and the final one, has
\* a link target exactly when it is a CreateSymlink and a conflict detail when
\* it is a Conflict
C24_ActionsWellShaped ==
    (Done /\ run.result = "Ok") =>
        /\ \A i \in PlanIndices : WellShaped(run.plan[i])
        /\ run.cfg.mode = "Stow" =>
               LET Each(plan) == \A i \in 1..Len(plan) : WellShaped(plan[i])
               IN  Each(PlannerPlan)

\* the final plan of a stow holds a file item's action that the
\* ConflictResolver turned into a Conflict, next to a CreateSymlink
C24_Witness ==
    /\ Done /\ run.result = "Ok" /\ run.cfg.mode = "Stow"
    /\ \E i \in PlanIndices :
           /\ run.plan[i].action_type = "Conflict"
           /\ run.plan[i].conflict_details = "Inter-package conflict"
           /\ run.plan[i].source_item.item_type = "File"
    /\ \E i \in PlanIndices : run.plan[i].action_type = "CreateSymlink"

\* the path is below the target root and names nothing above it
InsideTarget(q) ==
    /\ StrictAncestor(run.cfg.target_dir, q)
    /\ \A i \in 1..Len(q) : q[i] \notin {".", ".."}

\* C25: the target path of every planned action lies strictly inside the
\* target root
C25_TargetsInsideTargetRoot ==
    (Done /\ run.result = "Ok") =>
        \A i \in PlanIndices : InsideTarget(run.plan[i].target_path)

\* before the invocation the target of the action was a symlink that
\* resolves to the action's own item
AlreadyLinked(a) ==
    /\ a.target_path \in DOMAIN run.pre
    /\ run.pre[a.target_path].k = "link"
    /\ canonicalize_path(run.pre, a.target_path) = a.source_item.source_path

\* C26: in a stow the planner plans Skip for every file item whose target is
\* already a symlink resolving to that item, whichever package of the list
\* the item belongs to (items below a directory that is itself in conflict
\* are left to the parent-conflict cascade)
C26_OwnLinkIsSkipped ==
    (Done /\ run.cfg.mode = "Stow" /\ run.result = "Ok") =>
        LET Cascaded(plan, a) ==
                \E j \in 1..Len(plan) :
                    /\ plan[j].action_type = "Conflict"
                    /\ StrictAncestor(plan[j].target_path, a.target_path)
            Each(plan) ==
                \A i \in 1..Len(plan) :
                    ( /\ plan[i].source_item.item_type = "File"
                      /\ AlreadyLinked(plan[i])
                      /\ ~Cascaded(plan, plan[i]) )
                        => plan[i].action_type = "Skip"
        IN  Each(PlannerPlan)

\* where the symlink at q of filesystem f leads: the canonical path of its
\* destination, or the lexically normalised destination when it dangles
DestinationOf(f, q) ==
    LET Lexical(resolved) ==
            LET Pick(canonical) ==
                    IF IsFailure(canonical) THEN normalize_path_components(resolved)
                    ELSE canonical
            IN  Pick(canonicalize_path(f, resolved))
    IN  Lexical(resolve_symlink_target(q, f[q].v))

\* the symlinks below the target root before the invocation that lead into
\* one of the packages named in the invocation
LinksIntoInvoked ==
    {q \in DOMAIN run.pre :
        /\ UnderTarget(q)
        /\ run.pre[q].k = "link"
        /\ \E i \in 1..Len(run.cfg.packages) :
               StartsWith(DestinationOf(run.pre, q),
                          Append(run.cfg.stow_dir, run.cfg.packages[i]))}

\* the targets of the DeleteSymlink actions the invocation reported
DeleteSymlinkTargets ==
    {run.reports[i].original_action.target_path :
        i \in {j \in ReportIndices :
                  run.reports[j].original_action.action_type = "DeleteSymlink"}}

\* C27: the deletion phase of a restow reports DeleteSymlink for exactly the
\* symlinks below the target root that lead into one of the restowed
\* packages: never for a symlink into another package or to a place outside
\* the stow directory
C27_RestowDeletesExactlyOwnLinks ==
    (Done /\ run.cfg.mode = "Restow" /\ run.result = "Ok") =>
        DeleteSymlinkTargets = LinksIntoInvoked

\* a restow of p1 alone deleted a symlink into p1 and left in place a symlink
\* of the target root that leads into p2
C27_Witness ==
    /\ RealDone("Restow")
    /\ run.cfg.packages = <<"p1">>
    /\ DeleteSymlinkTargets # {}
    /\ \E q \in DOMAIN run.pre :
           /\ UnderTarget(q)
           /\ run.pre[q].k = "link"
           /\ StartsWith(DestinationOf(run.pre, q), Append(run.cfg.stow_dir, "p2"))
           /\ q \in DOMAIN fs
           /\ fs[q] = run.pre[q]

\* C28: an invocation without adopt, whatever its mode and whatever way it
\* ends, leaves the stow directory and everything below it as it was
C28_StowDirUntouchedWithoutAdopt ==
    (Done /\ ~run.cfg.adopt) =>
        \A q \in DOMAIN run.pre \cup DOMAIN fs :
            StartsWith(q, run.cfg.stow_dir) => Untouched(q)

\* nothing was at the target of report i when its action was executed: an
\* earlier action of the run deleted the symlink and none recreated it, or
\* nothing was there when the run began and none created it
AbsentWhenExecuted(i) ==
    LET q == run.reports[i].original_action.target_path
        Changed(j, type) ==
            /\ run.reports[j].original_action.target_path = q
            /\ run.reports[j].original_action.action_type = type
            /\ run.reports[j].status = "Success"
        CreatedBetween(j) ==
            \E k \in (j + 1)..(i - 1) :
                Changed(k, "CreateSymlink") \/ Changed(k, "AdoptFile")
    IN  \/ q \notin DOMAIN run.pre /\ ~CreatedBetween(0)
        \/ \E j \in 1..(i - 1) : Changed(j, "DeleteSymlink") /\ ~CreatedBetween(j)

\* C29: a DeleteSymlink action executed when its target is already absent is
\* reported Skipped, not Failure
C29_AbsentSymlinkIsSkipped ==
    (Done /\ ~run.cfg.simulate /\ run.result = "Ok") =>
        \A i \in ReportIndices :
            (run.reports[i].original_action.action_type = "DeleteSymlink"
                /\ AbsentWhenExecuted(i))
                    => run.reports[i].status = "Skipped"

\* the filesystem on which report i of a deletion was produced: what the run
\* began with, less the targets of the deletions reported Success before i
\* (DeleteDirectory is only planned in deletion plans, which create nothing)
RECURSIVE FsBefore(_)
FsBefore(i) ==
    IF i <= 1 THEN run.pre
    ELSE LET Less(F, r) ==
                 IF /\ r.original_action.action_type \in {"DeleteSymlink", "DeleteDirectory"}
                    /\ r.status = "Success"
                 THEN [q \in DOMAIN F \ {r.original_action.target_path} |-> F[q]]
                 ELSE F
         IN  Less(FsBefore(i - 1), run.reports[i - 1])

DeleteDirectoryReports ==
    {i \in ReportIndices : run.reports[i].original_action.action_type = "DeleteDirectory"}

MissingIn(F, q) == q \notin DOMAIN F
EmptyDirIn(F, q) ==
    q \in DOMAIN F /\ F[q].k = "dir" /\ ~\E c \in DOMAIN F : StrictAncestor(q, c)
NonEmptyDirIn(F, q) ==
    q \in DOMAIN F /\ F[q] = Dir /\ \E c \in DOMAIN F : StrictAncestor(q, c)

BelowPlannedConflict(plan, a) ==
    \E j \in 1..Len(plan) :
        /\ plan[j].action_type = "Conflict"
        /\ StrictAncestor(plan[j].target_path, a.target_path)

\* before the invocation q was a directory, and everything below it was a
\* directory or a symlink that leads into the stow directory
HoldsOnlyStowManaged(q) ==
    /\ q \in DOMAIN run.pre
    /\ run.pre[q].k = "dir"
    /\ \A c \in DOMAIN run.pre :
           StrictAncestor(q, c) =>
               \/ run.pre[c].k = "dir"
               \/ /\ run.pre[c].k = "link"
                  /\ StrictAncestor(run.cfg.stow_dir, DestinationOf(run.pre, c))
                  /\ ~IsFailure(canonicalize_path(run.pre, c))

\* before the invocation q was a directory that held, at some depth, a
\* regular file or a symlink that does not lead into the stow directory
HoldsNonStowEntry(q) ==
    /\ q \in DOMAIN run.pre
    /\ run.pre[q].k = "dir"
    /\ ~HoldsOnlyStowManaged(q)

\* C31: for a directory item whose target is a directory the planner plans
\* CreateDirectory when the directory holds only stow-managed content, also
\* inside subdirectories, and Conflict when it holds an entry that is not
\* stow-managed (directories below a directory in conflict are left to the
\* parent-conflict cascade)
C31_DirectoryOverDirectory ==
    (Done /\ run.cfg.mode = "Stow" /\ run.result = "Ok") =>
        LET Each(plan) ==
                \A i \in 1..Len(plan) :
                    ( /\ plan[i].source_item.item_type = "Directory"
                      /\ ~BelowPlannedConflict(plan, plan[i]) )
                        => /\ HoldsOnlyStowManaged(plan[i].target_path)
                               => plan[i].action_type = "CreateDirectory"
                           /\ HoldsNonStowEntry(plan[i].target_path)
                               => plan[i].action_type = "Conflict"
        IN  Each(PlannerPlan)

\* the item of the action and what was at its target before the invocation
\* are of different kinds: a file or symlink item over a directory, or a
\* directory item over a regular file
TypeMismatch(a) ==
    /\ a.target_path \in DOMAIN run.pre
    /\ \/ a.source_item.item_type \in {"File", "Symlink"} /\ run.pre[a.target_path].k = "dir"
       \/ a.source_item.item_type = "Directory" /\ run.pre[a.target_path].k = "file"

\* C32: a stow plans Conflict for every item whose target is of the other
\* kind, whatever the override and defer patterns, and what was at the target
\* is still there after the run
C32_TypeMismatchIsConflict ==
    (Done /\ run.cfg.mode = "Stow" /\ run.result = "Ok") =>
        LET Each(plan) ==
                \A i \in 1..Len(plan) :
                    TypeMismatch(plan[i]) =>
                        /\ plan[i].action_type = "Conflict"
                        /\ run.plan[i].action_type = "Conflict"
                        /\ fs[plan[i].target_path] = run.pre[plan[i].target_path]
        IN  Each(PlannerPlan)

\* an override regex matched the target of a file item over a directory, or
\* of a directory item over a regular file
C32_Witness ==
    /\ RealDone("Stow")
    /\ \E i \in PlanIndices :
          /\ TypeMismatch(run.plan[i])
          /\ Overridden(run.plan[i])

\* before the invocation q was a directory that may not be listed
UnreadableBefore(q) == q \in DOMAIN run.pre /\ run.pre[q] = DirNoRead

\* C33: an invocation returns an error only for a package or an ignore file,
\* never for what the planner meets in the target tree, and a stow plans
\* Conflict for a directory item whose target directory may not be listed
C33_InspectionErrorIsConflict ==
    Done =>
        /\ run.result = "Err" => PackageOrIgnoreError
        /\ (run.cfg.mode = "Stow" /\ run.result = "Ok") =>
               LET Each(plan) ==
                       \A i \in 1..Len(plan) :
                           ( /\ plan[i].source_item.item_type = "Directory"
                             /\ UnreadableBefore(plan[i].target_path) )
                               => plan[i].action_type = "Conflict"
               IN  Each(PlannerPlan)

\* what the classification of q is to be: the package and the item path when
\* q is a symlink that resolves to a path strictly below the stow directory,
\* and otherwise None
ExpectedClassification(f, q, stow_dir) ==
    LET Of(dest) ==
            IF ~IsFailure(dest) /\ StrictAncestor(stow_dir, dest)
            THEN [r |-> "Some", package_name |-> dest[Len(stow_dir) + 1],
                  item_path |-> SubSeq(dest, Len(stow_dir) + 2, Len(dest))]
            ELSE NotStow
    IN  IF f[q].k # "link" THEN NotStow
        ELSE Of(canonicalize_path(f, q))

\* C34: is_stow_symlink classifies every entry of the filesystem as expected:
\* None, never an error, for what is no symlink, for a symlink that does not
\* resolve, that resolves outside the stow directory or to it
C34_StowSymlinkClassification ==
    \A q \in DOMAIN fs :
        is_stow_symlink(fs, q, StowDir) = ExpectedClassification(fs, q, StowDir)

\* before the invocation q, below the target root and outside the stow
\* directory, was an entry that stow does not manage: a regular file, a
\* symlink that does not lead into the stow directory, or an empty directory
ForeignBefore(q) ==
    /\ q \in DOMAIN run.pre
    /\ UnderTarget(q)
    /\ ~StartsWith(q, run.cfg.stow_dir)
    /\ \/ run.pre[q].k = "file"
       \/ run.pre[q].k = "link"
            /\ ~StartsWith(DestinationOf(run.pre, q), run.cfg.stow_dir)
       \/ run.pre[q].k = "dir"
            /\ ~\E c \in DOMAIN run.pre : StrictAncestor(q, c)

\* C35: a restow without adopt and without override patterns leaves in place
\* and unchanged every entry below the target root that stow does not
\* manage, an empty directory included
C35_RestowKeepsForeignEntries ==
    (RealDone("Restow") /\ ~run.cfg.adopt /\ run.cfg.overrides = {}) =>
        \A q \in DOMAIN run.pre : ForeignBefore(q) => Untouched(q)

\* in filesystem F the item of the action is in place at its target: a
\* symlink whose body leads to the item, or for a directory item a directory
InPlaceIn(F, a) ==
    /\ a.target_path \in DOMAIN F
    /\ IF a.source_item.item_type = "Directory" THEN F[a.target_path].k = "dir"
       ELSE /\ F[a.target_path].k = "link"
            /\ ~IsAbsolute(F[a.target_path].v)
            /\ NormalizeFrom(Parent(a.target_path), F[a.target_path].v)
                   = a.source_item.source_path

\* the actions of the stow phase of a restow: those that carry an item
ItemActions == {i \in PlanIndices : run.plan[i].source_item # NoItem}

\* the restowed package was installed when the restow began: it holds a file
\* or symlink item, and every item the restow plans was in place
InstalledBefore ==
    /\ \E i \in ItemActions : run.plan[i].source_item.item_type # "Directory"
    /\ \A i \in ItemActions : InPlaceIn(run.pre, run.plan[i])

\* C36: a restow of one installed package puts every item in place again and
\* reports neither ConflictPrevented nor Failure
C36_RestowPreservesInstallation ==
    (RealDone("Restow") /\ Len(run.cfg.packages) = 1 /\ InstalledBefore) =>
        /\ \A i \in ItemActions : InPlaceIn(fs, run.plan[i])
        /\ \A i \in ReportIndices :
               run.reports[i].status \notin {"ConflictPrevented", "Failure"}

\* C37: in a stow, a CreateSymlink action whose target the planner found
\* absent (path_exists is false before the run) is not reported Failure
C37_AbsentTargetIsLinked ==
    RealDone("Stow") =>
        \A i \in ReportIndices :
            ( /\ run.reports[i].original_action.action_type = "CreateSymlink"
              /\ ~path_exists(run.pre, run.reports[i].original_action.target_path) )
                => run.reports[i].status # "Failure"

====
